---- MODULE Spec2Model ----
(***************************************************************************)
(* A model of k2modules/util/database/common.py: BaseDatabaseManager, the  *)
(* sqlite3-backed data-access base class of Kurisu2.                       *)
(*                                                                         *)
(* One database file and one manager object at a time are modelled: the    *)
(* object is constructed against the file, used, closed and finalised, and *)
(* a later object may be constructed against the same file.  The engine    *)
(* (sqlite3) is modelled by what the statements the manager builds do to   *)
(* the tables of the file.  Assertions are enabled (no python -O).  A      *)
(* select result, once its iteration starts, is consumed in one step: no   *)
(* other call is made on the connection while the cursor is open.          *)
(***************************************************************************)
EXTENDS Integers, Sequences, FiniteSets, TLC

\* Bound of the model: rows stored in the file, all tables together.
MaxRows == 2

\* Python's None, SQL's NULL.
None == "None"

\* The values a column or a parameter can hold.
Values == {None, "a", "b"}

\* The schema a concrete manager type declares (tables=...): table name ->
\* ordered columns, each with its raw type/constraint declaration.
tables ==
    [users |-> << [col |-> "id", decl |-> "TEXT UNIQUE"],
                  [col |-> "name", decl |-> "TEXT"] >>,
     tags  |-> << [col |-> "tag", decl |-> "TEXT"] >>]

TableNames == DOMAIN tables

\* self.tables[table].keys()
Columns(t) == {tables[t][i].col : i \in 1..Len(tables[t])}

\* chain.from_iterable(x.keys() for x in self.tables.values())
AllColumns == UNION {Columns(t) : t \in TableNames}

\* Position of a declared column in its table's declaration order.
ColIdx(t, c) == CHOOSE i \in 1..Len(tables[t]) : tables[t][i].col = c

\* The order in which a call site passes its keyword arguments
\* (a dict keeps insertion order); "bogus" is declared by no table.
KeyOrder == <<"id", "name", "tag", "bogus">>

\* values.keys(): the keys of a keyword map, in call order.
KeysView(values) == SelectSeq(KeyOrder, LAMBDA k : k \in DOMAIN values)

\* The values the callers pass for a key: "id" takes two distinct values
\* besides None, the other keys one.
ValuesOf(k) == IF k = "id" THEN Values ELSE {None, "a"}

\* Every keyword map over the keys ks.
MapsOver(ks) == {v \in [ks -> Values] : \A k \in ks : v[k] \in ValuesOf(k)}

\* The calls whose arguments pass validation: a declared table and a non-empty
\* map over its columns.
ValidCalls ==
    UNION {{<<t, v>> : v \in UNION {MapsOver(ks) : ks \in (SUBSET Columns(t)) \ {{}}}}
           : t \in TableNames}

\* Calls whose arguments fail validation: an undeclared table, an empty map, a
\* column of another table (alone or beside a declared one), an undeclared key.
InvalidCalls ==
    {<<"nope", [id |-> "a"]>>,
     <<"users", << >>>>,
     <<"tags", << >>>>,
     <<"users", [tag |-> "a"]>>,
     <<"tags", [id |-> "a"]>>,
     <<"users", [id |-> "a", tag |-> "a"]>>,
     <<"users", [bogus |-> "a"]>>}

\* The calls the callers make.
Calls == ValidCalls \cup InvalidCalls

\* The calls made around a select result that is held before it is iterated.
LazyCalls ==
    {<<"users", [id |-> "a"]>>, <<"users", [name |-> "a"]>>,
     <<"tags", [tag |-> "a"]>>, <<"users", [tag |-> "a"]>>}

----------------------------------------------------------------------------
\* The engine.

\* SQL's `x = y`: NULL equals nothing, not even NULL.
SqlEq(x, y) == x # None /\ y # None /\ x = y

\* A row satisfies a WHERE clause (a set of <<column, parameter>> terms
\* joined by AND) under the bound parameters.
WhereHolds(t, row, where, params) ==
    \A w \in where : SqlEq(row[ColIdx(t, w[1])], params[w[2]])

RECURSIVE CountWhere(_, _, _, _)
\* COUNT(*): the aggregate walks the table and counts the rows that pass.
CountWhere(t, rs, where, params) ==
    IF rs = << >> THEN 0
    ELSE (IF WhereHolds(t, Head(rs), where, params) THEN 1 ELSE 0)
         + CountWhere(t, Tail(rs), where, params)

\* A column declared UNIQUE refuses a second row with the same non-NULL value.
UniqueViolated(t, rs, row) ==
    \E i \in 1..Len(tables[t]) :
        /\ tables[t][i].decl = "TEXT UNIQUE"
        /\ \E j \in 1..Len(rs) : SqlEq(rs[j][i], row[i])

\* The row INSERT INTO t (cols) VALUES (params) stores: each named column takes
\* the parameter at the same position, every other column is NULL.
InsertedRow(t, cols, pnames, params) ==
    [i \in 1..Len(tables[t]) |->
        IF \E j \in 1..Len(cols) : cols[j] = tables[t][i].col
        THEN params[pnames[CHOOSE j \in 1..Len(cols) : cols[j] = tables[t][i].col]]
        ELSE None]

\* The columns a statement names.
QueryColumns(q) ==
    IF q.kind = "INSERT" THEN {q.cols[j] : j \in 1..Len(q.cols)}
    ELSE {w[1] : w \in q.where}

\* cursor.execute(query, params) on the tables `data` of the file: the tables
\* afterwards, the result rows, COUNT(*)'s scalar, rowcount and the error raised
\* (OperationalError: no such table, no such column).
Execute(q, params, data) ==
    LET t  == q.table
        rs == data[t]
    IN  IF t \notin DOMAIN data \/ ~(QueryColumns(q) \subseteq Columns(t))
        THEN [data |-> data, rows |-> << >>, num |-> -1, error |-> "OperationalError"]
        ELSE
        CASE q.kind = "SELECT" ->
               [data |-> data,
                rows |-> SelectSeq(rs, LAMBDA r : WhereHolds(t, r, q.where, params)),
                num |-> -1, error |-> "none"]
          [] q.kind = "COUNT" ->
               [data |-> data, rows |-> << >>,
                num |-> CountWhere(t, rs, q.where, params), error |-> "none"]
          [] q.kind = "DELETE" ->
               [data |-> [data EXCEPT ![t] =
                             SelectSeq(rs, LAMBDA r : ~WhereHolds(t, r, q.where, params))],
                rows |-> << >>,
                num |-> Len(rs) - Len(SelectSeq(rs,
                            LAMBDA r : ~WhereHolds(t, r, q.where, params))),
                error |-> "none"]
          [] q.kind = "INSERT" ->
               LET row == InsertedRow(t, q.cols, q.pnames, params)
               IN  IF UniqueViolated(t, rs, row)
                   THEN [data |-> data, rows |-> << >>, num |-> -1,
                         error |-> "IntegrityError"]
                   ELSE [data |-> [data EXCEPT ![t] = Append(rs, row)],
                         rows |-> << >>, num |-> -1, error |-> "none"]

\* with connwrap(self.conn): the work of the block is committed when the block
\* ends normally and rolled back when it raises.
connwrap(before, after, raised) == IF raised THEN before ELSE after

\* CREATE TABLE t (...) on the file: the table is added, empty, unless a table
\* of that name exists, and then the engine raises OperationalError.
CreateTable(t, ex, data) ==
    IF t \in ex
    THEN [exists |-> ex, data |-> data, error |-> "OperationalError"]
    ELSE [exists |-> ex \cup {t}, data |-> [data EXCEPT ![t] = << >>],
          error |-> "none"]

\* What conn.commit() and conn.close() can do: return, or raise.
EngineOutcomes == {"ok", "ProgrammingError", "OperationalError"}

----------------------------------------------------------------------------
\* The state: the database file, the manager object, the caller's view.

VARIABLES
    exists,       \* the tables the database file holds
    rows,         \* the rows of every table of the file, in rowid order
    obj,          \* a manager object exists (constructed, not yet finalised)
    _db_closed,   \* self._db_closed
    conn,         \* self.conn: "none", "open" or "closed"
    gen,          \* the generator a _select call returned, not yet iterated,
                  \* and whether a close() has returned since the call
    closeReturned,  \* a close() call on this object has returned normally
    last          \* what the last call did and returned

vars == <<exists, rows, obj, _db_closed, conn, gen, closeReturned, last>>

NoGen == [table |-> "none", values |-> << >>, afterClose |-> FALSE]

NoArgs == <<"none", << >>>>

\* The report of one call: its arguments, its outcome (what it returned or
\* raised), the assertion that failed, whether a statement reached the engine,
\* the rows and the number returned, the conn.commit() and conn.close() calls
\* made, the tables created.
Report(op, args, r) ==
    [op |-> op, table |-> args[1], values |-> args[2],
     outcome |-> r.outcome, failed |-> r.failed, executed |-> r.executed,
     rows |-> r.rows, num |-> r.num, commits |-> 0, releases |-> 0, created |-> {}]

\* A call that ran no statement and returned no rows or number.
Plain(outcome) ==
    [outcome |-> outcome, failed |-> "none", executed |-> FALSE,
     rows |-> << >>, num |-> -1]

TotalRows == Len(rows["users"]) + Len(rows["tags"])

----------------------------------------------------------------------------
\* The methods of BaseDatabaseManager.

\* Preamble with the column check of the _format_* helpers: the keys are looked
\* up among the columns of all tables instead of the named table's.
Preamble_AnyTable(table, values) ==
    IF _db_closed THEN "closed"
    ELSE IF TableNames = {} THEN "tables"
    ELSE IF table \notin TableNames THEN "table"
    ELSE IF DOMAIN values = {} THEN "values"
    ELSE IF ~(\A k \in DOMAIN values : k \in AllColumns) THEN "column"
    ELSE "none"

\* The assertions every CRUD method opens with, in order: the first that
\* fails, or "none".
Preamble(table, values) ==
    IF _db_closed THEN "closed"
    ELSE IF TableNames = {} THEN "tables"
    ELSE IF table \notin TableNames THEN "table"
    ELSE IF DOMAIN values = {} THEN "values"
    ELSE IF ~(\A k \in DOMAIN values : k \in Columns(table)) THEN "column"
    ELSE "none"

\* _format_select_vars that writes the first term only.
_format_select_vars_first(keys) ==
    [failed |-> IF _db_closed THEN "closed"
                ELSE IF ~(\A i \in 1..Len(keys) : keys[i] \in AllColumns) THEN "column"
                ELSE "none",
     text |-> IF Len(keys) = 0 THEN {} ELSE {<<keys[1], keys[1]>>}]

\* _format_select_vars: '' for no keys, else 'WHERE `c` = :c AND ...', kept as
\* the set of its <<column, parameter>> terms.
_format_select_vars(keys) ==
    [failed |-> IF _db_closed THEN "closed"
                ELSE IF ~(\A i \in 1..Len(keys) : keys[i] \in AllColumns) THEN "column"
                ELSE "none",
     text |-> IF Len(keys) = 0 THEN {}
              ELSE {<<keys[i], keys[i]>> : i \in 1..Len(keys)}]

\* _format_insert_vars that writes the parameter names in reverse key order.
_format_insert_vars_reversed(keys) ==
    [failed |-> IF _db_closed THEN "closed"
                ELSE IF Len(keys) = 0 THEN "values"
                ELSE IF ~(\A i \in 1..Len(keys) : keys[i] \in AllColumns) THEN "column"
                ELSE "none",
     text |-> [i \in 1..Len(keys) |-> keys[Len(keys) + 1 - i]]]

\* _format_insert_vars: ':c, ...', the parameter names in key order.
_format_insert_vars(keys) ==
    [failed |-> IF _db_closed THEN "closed"
                ELSE IF Len(keys) = 0 THEN "values"
                ELSE IF ~(\A i \in 1..Len(keys) : keys[i] \in AllColumns) THEN "column"
                ELSE "none",
     text |-> [i \in 1..Len(keys) |-> keys[i]]]

\* _format_cols: '`c`, ...', the column names in key order.
_format_cols(keys) ==
    [failed |-> IF _db_closed THEN "closed"
                ELSE IF Len(keys) = 0 THEN "values"
                ELSE IF ~(\A i \in 1..Len(keys) : keys[i] \in AllColumns) THEN "column"
                ELSE "none",
     text |-> [i \in 1..Len(keys) |-> keys[i]]]

\* A call that an assertion stopped: nothing reached the engine.
Stopped(failed) ==
    [outcome |-> "AssertionError", failed |-> failed, executed |-> FALSE,
     data |-> rows, rows |-> << >>, num |-> -1]

\* c.execute(query, values) inside `with connwrap(self.conn)`.
Statement(q, values) ==
    LET r == Execute(q, values, rows)
    IN  [outcome |-> IF r.error = "none" THEN "ok" ELSE r.error,
         failed |-> "none", executed |-> TRUE,
         data |-> connwrap(rows, r.data, r.error # "none"),
         rows |-> r.rows, num |-> r.num]

\* _select, from the first next() on the generator it returns to exhaustion.
_select(table, values) ==
    LET pre == Preamble(table, values)
        w   == _format_select_vars(KeysView(values))
    IN  IF pre # "none" THEN Stopped(pre)
        ELSE IF w.failed # "none" THEN Stopped(w.failed)
        ELSE Statement([kind |-> "SELECT", table |-> table, where |-> w.text], values)

\* _row_count that leaves the WHERE clause out.
_row_count_all(table, values) ==
    LET pre == Preamble(table, values)
    IN  IF pre # "none" THEN Stopped(pre)
        ELSE Statement([kind |-> "COUNT", table |-> table, where |-> {}], values)

\* _row_count
_row_count(table, values) ==
    LET pre == Preamble(table, values)
        w   == _format_select_vars(KeysView(values))
    IN  IF pre # "none" THEN Stopped(pre)
        ELSE IF w.failed # "none" THEN Stopped(w.failed)
        ELSE Statement([kind |-> "COUNT", table |-> table, where |-> w.text], values)

\* _insert
_insert(table, values) ==
    LET pre == Preamble(table, values)
        cs  == _format_cols(KeysView(values))
        ps  == _format_insert_vars(KeysView(values))
    IN  IF pre # "none" THEN Stopped(pre)
        ELSE IF cs.failed # "none" THEN Stopped(cs.failed)
        ELSE IF ps.failed # "none" THEN Stopped(ps.failed)
        ELSE Statement([kind |-> "INSERT", table |-> table,
                        cols |-> cs.text, pnames |-> ps.text], values)

\* _delete that leaves the WHERE clause out.
_delete_all(table, values) ==
    LET pre == Preamble(table, values)
    IN  IF pre # "none" THEN Stopped(pre)
        ELSE Statement([kind |-> "DELETE", table |-> table, where |-> {}], values)

\* _delete
_delete(table, values) ==
    LET pre == Preamble(table, values)
        w   == _format_select_vars(KeysView(values))
    IN  IF pre # "none" THEN Stopped(pre)
        ELSE IF w.failed # "none" THEN Stopped(w.failed)
        ELSE Statement([kind |-> "DELETE", table |-> table, where |-> w.text], values)

\* close(): what it does given what conn.commit() and conn.close() do.
close(commitRes, closeRes) ==
    IF _db_closed
    THEN [raised |-> "none", closed |-> _db_closed, conn |-> conn,
          commits |-> 0, releases |-> 0]
    ELSE IF commitRes # "ok"
    THEN [raised |-> IF commitRes = "ProgrammingError" THEN "none" ELSE commitRes,
          closed |-> _db_closed, conn |-> conn, commits |-> 1, releases |-> 0]
    ELSE IF closeRes # "ok"
    THEN [raised |-> IF closeRes = "ProgrammingError" THEN "none" ELSE closeRes,
          closed |-> _db_closed, conn |-> conn, commits |-> 1, releases |-> 1]
    ELSE [raised |-> "none", closed |-> TRUE, conn |-> "closed",
          commits |-> 1, releases |-> 1]

\* The order of self.tables.items().
TableOrder == <<"users", "tags">>

RECURSIVE CreateTables_NoCatch(_, _, _, _)
\* The loop of __init__ without its try/except: the first table the engine
\* refuses ends the construction with the engine's error.
CreateTables_NoCatch(ts, ex, data, created) ==
    IF ts = << >>
    THEN [exists |-> ex, data |-> data, created |-> created, raised |-> "none"]
    ELSE LET r == CreateTable(Head(ts), ex, data)
         IN  IF r.error # "none"
             THEN [exists |-> r.exists, data |-> r.data, created |-> created,
                   raised |-> r.error]
             ELSE CreateTables_NoCatch(Tail(ts), r.exists, r.data,
                                       created \cup {Head(ts)})

RECURSIVE CreateTables(_, _, _, _)
\* The loop of __init__ over the tables still to create: the file afterwards,
\* the tables created, and the error that left the loop ("none": it completed).
CreateTables(ts, ex, data, created) ==
    IF ts = << >>
    THEN [exists |-> ex, data |-> data, created |-> created, raised |-> "none"]
    ELSE LET r == CreateTable(Head(ts), ex, data)
         IN  IF r.error = "OperationalError"
             THEN CreateTables(Tail(ts), r.exists, r.data, created)
             ELSE IF r.error # "none"
             THEN [exists |-> r.exists, data |-> r.data, created |-> created,
                   raised |-> r.error]
             ELSE CreateTables(Tail(ts), r.exists, r.data, created \cup {Head(ts)})

----------------------------------------------------------------------------
\* The calls.

Init ==
    /\ exists \in SUBSET TableNames
    /\ rows = [t \in TableNames |-> << >>]
    /\ obj = FALSE
    /\ _db_closed = FALSE
    /\ conn = "none"
    /\ gen = NoGen
    /\ closeReturned = FALSE
    /\ last = Report("none", NoArgs, Plain("none"))

\* __init__: connect, then create every table of the schema, skipping the
\* tables the engine refuses with OperationalError.
__init__ ==
    /\ ~obj
    /\ LET r == CreateTables(TableOrder, exists, rows, {})
       IN  /\ exists' = r.exists
           /\ rows' = r.data
           /\ obj' = (r.raised = "none")
           /\ conn' = IF r.raised = "none" THEN "open" ELSE "none"
           /\ last' = [Report("init", NoArgs,
                              Plain(IF r.raised = "none" THEN "ok" ELSE r.raised))
                       EXCEPT !.executed = TRUE, !.created = r.created]
    /\ _db_closed' = FALSE
    /\ gen' = NoGen
    /\ closeReturned' = FALSE

\* A call of _select: a generator function, so the call runs none of the
\* body and returns the generator.
SelectCall(table, values) ==
    /\ obj
    /\ gen' = [table |-> table, values |-> values, afterClose |-> FALSE]
    /\ last' = Report("select", <<table, values>>, Plain("generator"))
    /\ UNCHANGED <<exists, rows, obj, _db_closed, conn, closeReturned>>

\* list(...) of the generator: the body of _select runs to its end.
Iterate ==
    /\ obj
    /\ gen # NoGen
    /\ LET r == _select(gen.table, gen.values)
       IN  /\ rows' = r.data
           /\ last' = Report("iterate", <<gen.table, gen.values>>, r)
    /\ gen' = NoGen
    /\ UNCHANGED <<exists, obj, _db_closed, conn, closeReturned>>

Count(table, values) ==
    /\ obj
    /\ LET r == _row_count(table, values)
       IN  /\ rows' = r.data
           /\ last' = Report("count", <<table, values>>, r)
    /\ UNCHANGED <<exists, obj, _db_closed, conn, gen, closeReturned>>

\* (The file holds MaxRows rows at most: an insert that would store one more is
\* not made.)
Insert(table, values) ==
    /\ obj
    /\ _insert(table, values).outcome = "ok" => TotalRows < MaxRows
    /\ LET r == _insert(table, values)
       IN  /\ rows' = r.data
           /\ last' = Report("insert", <<table, values>>, r)
    /\ UNCHANGED <<exists, obj, _db_closed, conn, gen, closeReturned>>

Delete(table, values) ==
    /\ obj
    /\ LET r == _delete(table, values)
       IN  /\ rows' = r.data
           /\ last' = Report("delete", <<table, values>>, r)
    /\ UNCHANGED <<exists, obj, _db_closed, conn, gen, closeReturned>>

\* A call of close() by the owner of the object.
Close(commitRes, closeRes) ==
    /\ obj
    /\ LET r == close(commitRes, closeRes)
       IN  /\ _db_closed' = r.closed
           /\ conn' = r.conn
           /\ last' = [Report("close", NoArgs,
                              Plain(IF r.raised = "none" THEN "returned" ELSE r.raised))
                       EXCEPT !.commits = r.commits, !.releases = r.releases]
    /\ closeReturned' = (closeReturned \/ close(commitRes, closeRes).raised = "none")
    /\ gen' = IF gen = NoGen \/ close(commitRes, closeRes).raised # "none" THEN gen
              ELSE [gen EXCEPT !.afterClose = TRUE]
    /\ UNCHANGED <<exists, rows, obj>>

\* __del__: close(), every exception swallowed; the object is gone afterwards.
\* A generator not yet run refers to the object and keeps it alive.
__del__(commitRes, closeRes) ==
    /\ obj
    /\ gen = NoGen
    /\ LET r == close(commitRes, closeRes)
       IN  last' = [Report("del", NoArgs, Plain("returned"))
                    EXCEPT !.commits = r.commits, !.releases = r.releases]
    /\ obj' = FALSE
    /\ _db_closed' = FALSE
    /\ conn' = "none"
    /\ closeReturned' = FALSE
    /\ UNCHANGED <<exists, rows, gen>>

\* The calls on one object and one file.  A select result is consumed before
\* the next call is made.
Next ==
    \/ gen = NoGen /\ __init__
    \/ gen = NoGen /\ \E a \in Calls : SelectCall(a[1], a[2])
    \/ Iterate
    \/ gen = NoGen /\ \E a \in Calls : Count(a[1], a[2])
    \/ gen = NoGen /\ \E a \in Calls : Insert(a[1], a[2])
    \/ gen = NoGen /\ \E a \in Calls : Delete(a[1], a[2])
    \/ gen = NoGen /\ \E c, r \in EngineOutcomes : Close(c, r)
    \/ \E c, r \in EngineOutcomes : __del__(c, r)

Spec == Init /\ [][Next]_vars

\* The same calls with a select result held across other calls and close().
NextLazy ==
    \/ __init__
    \/ \E a \in LazyCalls : SelectCall(a[1], a[2])
    \/ Iterate
    \/ \E a \in LazyCalls : Count(a[1], a[2])
    \/ \E a \in LazyCalls : Insert(a[1], a[2])
    \/ \E a \in LazyCalls : Delete(a[1], a[2])
    \/ \E c, r \in EngineOutcomes : Close(c, r)
    \/ \E c, r \in EngineOutcomes : __del__(c, r)

SpecLazy == Init /\ [][NextLazy]_vars

----------------------------------------------------------------------------
\* What the calls are to do, stated over the tables and the arguments.

\* The arguments fail validation.
IsInvalid(t, v) ==
    \/ t \notin TableNames
    \/ DOMAIN v = {}
    \/ \E k \in DOMAIN v : k \notin Columns(t)

\* The last call was op, with valid arguments, on a manager that was open.
\* (No CRUD call changes the closed flag, so it is read after the call.)
DidOpen(op) ==
    /\ last.op = op
    /\ ~IsInvalid(last.table, last.values)
    /\ ~_db_closed

\* The row's value in every filter column equals the filter value.
Equals(t, row, f) == \A k \in DOMAIN f : row[ColIdx(t, k)] = f[k]

\* The same under SQL's equality: no NULL on either side.
EqualsNotNull(t, row, f) ==
    \A k \in DOMAIN f : f[k] # None /\ row[ColIdx(t, k)] # None /\ row[ColIdx(t, k)] = f[k]

\* The map f restricted to the keys ks.
Restrict(f, ks) == [k \in ks |-> f[k]]

\* C1 as claimed: on an open manager a select with valid arguments yields
\* exactly the rows of the table whose value in every filter column equals the
\* filter value, None included.
C1_SelectYieldsEqualRows ==
    DidOpen("iterate") =>
        /\ last.outcome = "ok"
        /\ last.rows = SelectSeq(rows[last.table],
                                 LAMBDA r : Equals(last.table, r, last.values))

\* C1 as amended: on an open manager a select with valid arguments yields, in
\* stored order, exactly the rows of the table whose value in every filter
\* column is not NULL and equals the filter value; a filter value of None
\* matches no row.  No row of another table is yielded.
C1_SelectYieldsSqlEqualRows ==
    DidOpen("iterate") =>
        /\ last.outcome = "ok"
        /\ last.executed
        /\ last.rows = SelectSeq(rows[last.table],
                                 LAMBDA r : EqualsNotNull(last.table, r, last.values))

\* A select on users by both columns yielded one of its two rows.
C1_Witness ==
    /\ DidOpen("iterate")
    /\ last.table = "users" /\ DOMAIN last.values = {"id", "name"}
    /\ Len(last.rows) = 1
    /\ Len(rows["users"]) = 2

\* C2: on an open manager count(table, f) with valid arguments returns the
\* number of rows select(table, f) yields when consumed in the same state.
C2_CountIsLenOfSelect ==
    DidOpen("count") =>
        /\ last.outcome = "ok"
        /\ _select(last.table, last.values).outcome = "ok"
        /\ last.num = Len(_select(last.table, last.values).rows)

\* A count returned 1 while the table it counted in holds two rows.
C2_Witness ==
    /\ DidOpen("count")
    /\ last.num = 1
    /\ Len(rows[last.table]) = 2

\* A select filtered by the columns ks of the inserted values v yields a row that
\* holds v in every inserted column, and the count with that filter is at least 1.
RoundTrips(t, v, ks) ==
    LET g == Restrict(v, ks)
        s == _select(t, g)
    IN  /\ s.outcome = "ok"
        /\ \E i \in 1..Len(s.rows) : Equals(t, s.rows[i], v)
        /\ _row_count(t, g).num >= 1

\* C3 as claimed: after a successful insert(table, values), a select filtered by
\* the inserted row's key columns (any non-empty set of the inserted columns)
\* yields a row whose columns equal the inserted values, and the count with that
\* filter is at least 1.
C3_InsertRoundTrip ==
    (DidOpen("insert") /\ last.outcome = "ok") =>
        \A ks \in (SUBSET DOMAIN last.values) \ {{}} :
            RoundTrips(last.table, last.values, ks)

\* C3 as amended: the same for every non-empty set of inserted columns whose
\* inserted values are not None; the stored row holds the inserted values, None
\* included, but a filter on a None value finds no row.
C3_InsertRoundTripNotNull ==
    (DidOpen("insert") /\ last.outcome = "ok") =>
        /\ last.executed
        /\ \E i \in 1..Len(rows[last.table]) :
               Equals(last.table, rows[last.table][i], last.values)
        /\ \A ks \in (SUBSET DOMAIN last.values) \ {{}} :
               IF \A k \in ks : last.values[k] # None
               THEN RoundTrips(last.table, last.values, ks)
               ELSE _select(last.table, Restrict(last.values, ks)).rows = << >>

\* An insert of two columns, both not None, succeeded after an earlier row.
C3_Witness ==
    /\ DidOpen("insert") /\ last.outcome = "ok"
    /\ last.table = "users"
    /\ last.values = [id |-> "b", name |-> "a"]
    /\ Len(rows["users"]) = 2

\* The delete just made, made again now, returns 0 and changes no table.
SameDeleteAgainIsNoop ==
    LET d == _delete(last.table, last.values)
    IN  /\ d.outcome = "ok"
        /\ d.num = 0
        /\ d.data = rows

\* This delete step leaves `remaining` in its table and every other table as it
\* was, and returns the number of rows it removed.
DeleteLeaves(remaining) ==
    LET t == last'.table
    IN  /\ last'.outcome = "ok"
        /\ rows'[t] = remaining
        /\ \A u \in TableNames \ {t} : rows'[u] = rows[u]
        /\ last'.num = Len(rows[t]) - Len(remaining)

\* This step is a delete with valid arguments on an open manager.
DeletesOpen ==
    /\ last'.op = "delete"
    /\ ~IsInvalid(last'.table, last'.values)
    /\ ~_db_closed

\* C4 as claimed: delete(table, f) with valid arguments removes exactly the rows
\* of the table that match f (their value in every filter column equals the
\* filter value), leaves every other row of every table as it was, and returns
\* the number of rows removed; the same delete made again returns 0 and changes
\* nothing.
C4_DeleteRemovesEqualRows ==
    /\ [][DeletesOpen =>
             DeleteLeaves(SelectSeq(rows[last'.table],
                                    LAMBDA r : ~Equals(last'.table, r, last'.values)))]_vars
    /\ [](DidOpen("delete") => SameDeleteAgainIsNoop)

\* C4 as amended: the same, where a row matches f when its value in every
\* filter column is not NULL and equals the filter value; a filter value of None
\* matches no row, so such a delete removes nothing and returns 0.
C4_DeleteRemovesSqlEqualRows ==
    /\ [][DeletesOpen =>
             DeleteLeaves(SelectSeq(rows[last'.table],
                                    LAMBDA r : ~EqualsNotNull(last'.table, r, last'.values)))]_vars
    /\ [](DidOpen("delete") => SameDeleteAgainIsNoop)

\* A delete removed one of two rows of users and returned 1.
C4_Witness ==
    /\ DidOpen("delete")
    /\ last.table = "users"
    /\ last.num = 1
    /\ Len(rows["users"]) = 1

\* C5: constructing a manager against a file that already holds tables of the
\* schema, with any rows, does not raise, creates only the tables the file
\* lacked, and leaves every row of every table as it was.
C5_CreateIsIdempotent ==
    [][(last'.op = "init" /\ exists # {}) =>
          /\ last'.outcome = "ok"
          /\ obj'
          /\ last'.created = TableNames \ exists
          /\ exists' = TableNames
          /\ rows' = rows]_vars

\* A manager was constructed against a file holding both tables and two rows.
C5_Witness ==
    /\ last.op = "init" /\ last.outcome = "ok"
    /\ last.created = {}
    /\ TotalRows = 2
    /\ rows["users"] # << >>

C6_CloseIsIdempotent ==
    [][/\ last'.op = "init" => ~_db_closed'
       /\ (last'.op = "close" /\ ~closeReturned /\ last'.outcome = "returned") =>
              /\ last'.commits = 1 /\ last'.releases = 1
              /\ conn' = "closed"
              /\ _db_closed'
       /\ (last'.op \in {"close", "del"} /\ closeReturned) =>
              /\ last'.outcome = "returned"
              /\ last'.commits = 0 /\ last'.releases = 0
              /\ rows' = rows
       /\ (last'.op = "close" /\ closeReturned) => UNCHANGED <<_db_closed, conn>>
       /\ (_db_closed /\ last'.op \notin {"init", "del"}) => _db_closed']_vars

\* C7 as claimed: close() and the finaliser return normally whatever the engine
\* raises while committing or releasing the connection.
C7_ShutdownNeverRaises ==
    last.op \in {"close", "del"} => last.outcome = "returned"

\* C8 as claimed: once close() has been called on an object and has returned,
\* every later count, insert, delete, and select (at the latest when its result
\* is first iterated) raises AssertionError, returns nothing, and runs no
\* statement.
C8_UseAfterCloseFails ==
    [][(closeReturned /\ last'.op \in {"iterate", "count", "insert", "delete"}) =>
          /\ last'.outcome = "AssertionError"
          /\ ~last'.executed
          /\ last'.rows = << >> /\ last'.num = -1
          /\ rows' = rows]_vars

\* C10 as claimed: the call of select validates nothing and runs no statement;
\* a result obtained before a close() that returned and first iterated after it
\* yields no row, raises the use-after-close AssertionError, and runs no statement.
C10_SelectIsLazy ==
    [][/\ last'.op = "select" =>
              /\ last'.outcome = "generator"
              /\ ~last'.executed
              /\ rows' = rows
       /\ (last'.op = "iterate" /\ gen.afterClose) =>
              /\ last'.outcome = "AssertionError"
              /\ last'.failed = "closed"
              /\ last'.rows = << >>
              /\ ~last'.executed]_vars

====
